---- MODULE Spec2Model ----
(***************************************************************************)
(* Model of ProductionPlanner (src/production_planner.py): the stock       *)
(* index, the order-material resolver, the requirement calculator and the  *)
(* reservation ledger with its persisted file reservations.json.           *)
(*                                                                         *)
(* Quantities are integers (the code uses floats; every sum the model      *)
(* checks has small integer terms, for which float arithmetic is exact).   *)
(* A dict is a function whose DOMAIN is the key set.  The blank cell (NaN) *)
(* of a table is the cell Blank, the blank material name is "".            *)
(***************************************************************************)
EXTENDS Integers, Sequences, FiniteSets, TLC

\* ------------------------------------------------------------------ bounds
\* largest reserved quantity per material the model lets a reservation reach
MaxQty == 7
\* number of I/O failures (write, read, remove) injected in one behaviour
MaxFaults == 1

\* ----------------------------------------------------------------- helpers
EmptyMap == <<>>

Get(m, k) == IF k \in DOMAIN m THEN m[k] ELSE 0

\* m[k] = v on a dict
Put(m, k, v) == (k :> v) @@ m

Range(s) == {s[i] : i \in DOMAIN s}

IsEmpty(m) == DOMAIN m = {}

Max(a, b) == IF a >= b THEN a ELSE b

Abs(a) == IF a < 0 THEN 0 - a ELSE a

\* str(x).strip() on the names the tables use
Strip(s) ==
  CASE s = "glass " -> "glass"
    [] s = " 102" -> "102"
    [] OTHER -> s

\* ------------------------------------------------------------- table cells
Num(n) == [kind |-> "num", v |-> n]
Blank == [kind |-> "blank", v |-> 0]
\* a text cell that float() rejects, and one that float() accepts
Text == [kind |-> "text", v |-> 0]
NumText(n) == [kind |-> "numtext", v |-> n]

\* pd.notna(value)
NotNa(c) == c.kind # "blank"

\* ---------------------------------------------------------- shipment dates
None == [kind |-> "none", v |-> 0]
Datetime(d) == [kind |-> "datetime", v |-> d]
\* JSON strings: an ISO-8601 text and a text fromisoformat() rejects
IsoStr(d) == [kind |-> "iso", v |-> d]
OtherStr(d) == [kind |-> "text", v |-> d]

\* truthiness of a date value (None is falsy)
Truthy(x) == x.kind # "none"

\* isinstance(x, datetime)
IsDatetime(x) == x.kind = "datetime"

\* variant of IsoFormat: the date written the way the menu reads it
\* (strftime('%d.%m.%Y')), which fromisoformat() rejects
StrFormat(x) == OtherStr(x.v)

\* datetime.isoformat()
IsoFormat(x) == IsoStr(x.v)

\* datetime.fromisoformat(x) raises ValueError/TypeError unless x is ISO text
FromIsoRaises(x) == x.kind # "iso"

FromIsoFormat(x) == Datetime(x.v)

\* ------------------------------------------------------------ input tables
\* the sheet 'Заказы': the second row for "101" is a duplicate order number
OrdersTable ==
  << [num |-> "101", client |-> "Alfa"],
     [num |-> " 102", client |-> "Beta"],
     [num |-> "101", client |-> "Gamma"] >>

\* order-association column labels of the sheet 'Потребность материалов',
\* each split into its whitespace-separated tokens
Labels == << <<"101">>, <<"101", "102">>, <<"102">> >>

\* a regular materials sheet
Table1 ==
  [has_material |-> TRUE, has_stock |-> TRUE, labels |-> Labels,
   rows |-> << [name |-> "glass", stock |-> Num(10),
                cells |-> <<Num(4), Num(1), Num(0)>>],
               [name |-> "profile", stock |-> Num(2),
                cells |-> <<Blank, Num(2), Num(3)>>],
               [name |-> "seal", stock |-> Blank,
                cells |-> <<Text, Num(-1), Num(1)>>] >>]

\* a sheet with a blank material name, an untrimmed duplicate name and a
\* numeric text cell
Table2 ==
  [has_material |-> TRUE, has_stock |-> TRUE, labels |-> Labels,
   rows |-> << [name |-> "glass", stock |-> Num(3),
                cells |-> <<Num(1), Blank, Num(1)>>],
               [name |-> "", stock |-> Num(7),
                cells |-> <<Num(3), Num(0), Num(0)>>],
               [name |-> "profile", stock |-> Num(5),
                cells |-> <<NumText(1), Num(1), Num(1)>>],
               [name |-> "glass ", stock |-> Num(4),
                cells |-> <<Num(0), Num(0), Num(2)>>] >>]

\* the workbooks the planner can be constructed on
ExcelFiles == {"book1", "book2"}

\* pd.read_excel(excel_file, sheet_name='Заказы')
OrdersDf(b) == OrdersTable

\* pd.read_excel(excel_file, sheet_name='Потребность материалов')
MaterialsDf(b) == IF b = "book1" THEN Table1 ELSE Table2

\* the order_numbers a caller passes; "999" is in no table
OrderLists == (SUBSET {"101", "102"}) \cup {{"999"}, {"101", "999"}}

\* ------------------------------------------------------------- stock index
RECURSIVE StockFold(_, _, _)
StockFold(rows, i, acc) ==
  IF i > Len(rows) THEN acc
  ELSE LET row == rows[i]
           stock == IF NotNa(row.stock) THEN row.stock.v ELSE 0
       IN IF row.name # ""
          THEN StockFold(rows, i + 1, Put(acc, Strip(row.name), stock))
          ELSE StockFold(rows, i + 1, acc)

\* load_data: the dict stock_data built from the column 'На складе'
BuildStock(t) ==
  IF t.has_stock THEN StockFold(t.rows, 1, EmptyMap) ELSE EmptyMap

\* ----------------------------------------------------------- select_orders
RECURSIVE FirstRow(_, _, _)
\* index of the first row of the orders table whose trimmed number is n, or 0
FirstRow(odf, n, i) ==
  IF i > Len(odf) THEN 0
  ELSE IF Strip(odf[i].num) = n THEN i ELSE FirstRow(odf, n, i + 1)

\* order_data.empty is false
Found(odf, n) == FirstRow(odf, Strip(n), 1) # 0

\* select_orders: the new selected_orders for the order numbers ids and the
\* mapping dates (shipment_dates.get gives None for a missing key)
SelectOrders(odf, ids, dates) ==
  [n \in {Strip(x) : x \in {y \in ids : Found(odf, y)}} |->
     [client |-> odf[FirstRow(odf, n, 1)].client,
      date |-> IF n \in DOMAIN dates THEN dates[n] ELSE None]]

\* ---------------------------------------- calculate_material_requirements
\* all_materials: the trimmed names of the rows whose name is not blank
AllMaterials(t) ==
  LET names[i \in 0..Len(t.rows)] ==
        IF i = 0 THEN <<>>
        ELSE IF t.rows[i].name # ""
             THEN Append(names[i - 1], Strip(t.rows[i].name))
             ELSE names[i - 1]
  IN IF t.has_material THEN names[Len(t.rows)] ELSE <<>>

\* order_columns: the columns whose label equals the order number or holds
\* it as a whitespace-separated token
OrderColumns(t, order_num) ==
  LET order_num_clean == Strip(order_num)
  IN {c \in 1..Len(t.labels) :
        \/ t.labels[c] = <<order_num_clean>>
        \/ order_num_clean \in Range(t.labels[c])}

\* what one cell adds to total_requirement: nothing when it is blank, zero
\* or rejected by float()
CellValue(c) ==
  IF NotNa(c) /\ ~(c.kind \in {"num", "numtext"} /\ c.v = 0)
  THEN IF c.kind \in {"num", "numtext"} THEN c.v ELSE 0
  ELSE 0

\* total_requirement of the material at position material_idx of
\* all_materials: the cells are read with .iloc[material_idx] on the sheet
TotalRequirement(t, cols, material_idx) ==
  LET sum[c \in 0..Len(t.labels)] ==
        IF c = 0 THEN 0
        ELSE sum[c - 1]
             + (IF c \in cols
                THEN CellValue(t.rows[material_idx].cells[c]) ELSE 0)
  IN sum[Len(t.labels)]

\* the loop over enumerate(all_materials) for one order; acc0 and the result
\* hold required_materials and order_materials
MaterialLoop(t, order_num, cols, acc0) ==
  LET all_materials == AllMaterials(t)
      step[i \in 0..Len(all_materials)] ==
        IF i = 0 THEN acc0
        ELSE LET acc == step[i - 1]
                 material_name == all_materials[i]
                 total_requirement == TotalRequirement(t, cols, i)
             IN IF total_requirement > 0
                THEN [required_materials |->
                        Put(acc.required_materials, material_name,
                            Get(acc.required_materials, material_name)
                              + total_requirement),
                      order_materials |->
                        Put(acc.order_materials, order_num,
                            Put(IF order_num \in DOMAIN acc.order_materials
                                THEN acc.order_materials[order_num]
                                ELSE EmptyMap,
                                material_name, total_requirement))]
                ELSE acc
  IN step[Len(all_materials)]

\* the order in which the keys of selected_orders are visited and written
KeyOrder == <<"101", "102", "999">>

\* the loop over selected_orders.keys(): required_materials and
\* order_materials after both loops
Resolve(t, order_nums) ==
  LET step[k \in 0..Len(KeyOrder)] ==
        IF k = 0
        THEN [required_materials |-> EmptyMap, order_materials |-> EmptyMap]
        ELSE IF KeyOrder[k] \in order_nums
                /\ OrderColumns(t, KeyOrder[k]) # {}
             THEN MaterialLoop(t, KeyOrder[k], OrderColumns(t, KeyOrder[k]),
                               step[k - 1])
             ELSE step[k - 1]
  IN step[Len(KeyOrder)]

\* every set of keys selected_orders can have
Selections ==
  LET p[k \in 0..Len(KeyOrder)] ==
        IF k = 0 THEN << {} >>
        ELSE p[k - 1] \o [i \in 1..Len(p[k - 1]) |->
                            p[k - 1][i] \cup {KeyOrder[k]}]
  IN p[Len(KeyOrder)]

\* Resolve(t, order_nums) tabulated for every selection
ResolvedFor(t) ==
  LET r[i \in 0..Len(Selections)] ==
        IF i = 0 THEN EmptyMap
        ELSE (Selections[i] :> Resolve(t, Selections[i])) @@ r[i - 1]
  IN r[Len(Selections)]

\* the resolution of every workbook: it depends on the sheet and on the
\* selected keys only, and is computed once
Resolved == [book1 |-> ResolvedFor(Table1), book2 |-> ResolvedFor(Table2)]

\* variant of AvailableStock: the difference without the max(0, ...)
AvailableUnclamped(current_stock, reserved) == current_stock - reserved

\* 'Доступно сейчас'
AvailableStock(current_stock, reserved) == Max(0, current_stock - reserved)

\* material_balance: one entry per key of required_materials
MaterialBalance(required_materials, stock, reservedm) ==
  [material \in DOMAIN required_materials |->
     LET current_stock == Get(stock, material)
         reserved == Get(reservedm, material)
         available_stock == AvailableStock(current_stock, reserved)
     IN [current_stock |-> current_stock,
         reserved |-> reserved,
         available_stock |-> available_stock,
         required |-> required_materials[material],
         balance_after |-> available_stock - required_materials[material]]]

\* variant of PurchaseRequirements: the test balance_after <= 0
PurchaseAtZero(material_balance) ==
  [material \in {m \in DOMAIN material_balance :
                   material_balance[m].balance_after <= 0} |->
     Abs(material_balance[material].balance_after)]

\* purchase_requirements: the materials whose balance is a deficit
PurchaseRequirements(material_balance) ==
  [material \in {m \in DOMAIN material_balance :
                   material_balance[m].balance_after < 0} |->
     Abs(material_balance[material].balance_after)]

NoReport ==
  [error |-> FALSE, material_requirements |-> EmptyMap,
   material_balance |-> EmptyMap, purchase_requirements |-> EmptyMap,
   order_materials |-> EmptyMap]

ErrorReport == [NoReport EXCEPT !.error = TRUE]

\* the dict calculate_material_requirements returns after its two loops
Report(b, stock, reservedm, selected) ==
  LET resolved == Resolved[b][DOMAIN selected]
      required_materials == resolved.required_materials
      material_balance ==
        MaterialBalance(required_materials, stock, reservedm)
  IN [error |-> FALSE,
      material_requirements |-> required_materials,
      material_balance |-> material_balance,
      purchase_requirements |-> PurchaseRequirements(material_balance),
      order_materials |-> resolved.order_materials]

\* variant of CalculateMaterialRequirements: the test of an empty
\* selected_orders is missing
CalculateUnchecked(b, stock, reservedm, selected) ==
  Report(b, stock, reservedm, selected)

\* calculate_material_requirements on the workbook b: the returned dict
CalculateMaterialRequirements(b, stock, reservedm, selected) ==
  IF DOMAIN selected = {} THEN ErrorReport
  ELSE Report(b, stock, reservedm, selected)

\* variant of ReservedRead: the read reserved_materials[material], which
\* makes a defaultdict add the key with 0.0
ReservedIndexed(reservedm, required_materials) ==
  [m \in (DOMAIN reservedm) \cup (DOMAIN required_materials) |->
     Get(reservedm, m)]

\* reserved_materials after the reads reserved_materials.get(material, 0)
\* of the balance loop: get() adds no key
ReservedRead(reservedm, required_materials) == reservedm

\* ------------------------------------------------------- reserve_materials
\* variant of ReserveAdd: = instead of +=
ReserveReplace(reservedm, requirements) ==
  [m \in (DOMAIN reservedm) \cup (DOMAIN requirements) |->
     IF m \in DOMAIN requirements THEN requirements[m] ELSE reservedm[m]]

\* variant of ReserveAdd: the ledger is rebuilt from the required materials
ReserveOnlyRequired(reservedm, requirements) ==
  [m \in DOMAIN requirements |-> Get(reservedm, m) + requirements[m]]

\* the loop reserved_materials[material] += required
ReserveAdd(reservedm, requirements) ==
  [m \in (DOMAIN reservedm) \cup (DOMAIN requirements) |->
     Get(reservedm, m) + Get(requirements, m)]

\* ------------------------------------------------------- reservations.json
Absent == [state |-> "absent", reserved_materials |-> EmptyMap,
           selected_orders |-> <<>>]

\* a file json.load rejects (not JSON, or cut short by a failed write)
Corrupt == [state |-> "corrupt", reserved_materials |-> EmptyMap,
            selected_orders |-> <<>>]

JsonFile(reservedm, entries) ==
  [state |-> "json", reserved_materials |-> reservedm,
   selected_orders |-> entries]

\* os.path.exists('reservations.json')
Exists(f) == f.state # "absent"

\* one entry of serializable_orders: the shipment date of a copy of
\* order_info becomes its ISO text when it is a datetime
SerializableOrder(order_num, order_info) ==
  [num |-> order_num, dict |-> TRUE, client |-> order_info.client,
   date |-> IF Truthy(order_info.date) /\ IsDatetime(order_info.date)
            THEN IsoFormat(order_info.date)
            ELSE order_info.date]

RECURSIVE SerializableOrders(_, _)
SerializableOrders(selected, i) ==
  IF i > Len(KeyOrder) THEN <<>>
  ELSE IF KeyOrder[i] \in DOMAIN selected
       THEN <<SerializableOrder(KeyOrder[i], selected[KeyOrder[i]])>>
            \o SerializableOrders(selected, i + 1)
       ELSE SerializableOrders(selected, i + 1)

\* json.dump raises TypeError on a value that is not JSON (a datetime)
JsonDumpRaises(entries) ==
  \E i \in DOMAIN entries : entries[i].date.kind = "datetime"

WriteOutcomes == {"ok", "open_fails", "dump_fails"}

\* variant of SaveReservationData: the file is never opened for writing
SaveSkipped(f, reservedm, selected, w) ==
  [file |-> f, io |-> "ok", raised |-> FALSE]

\* variant of SaveReservationData: no try/except around the write
SaveUncaught(f, reservedm, selected, w) ==
  IF w = "open_fails"
  THEN [file |-> f, io |-> "failed", raised |-> TRUE]
  ELSE IF w = "dump_fails"
       THEN [file |-> Corrupt, io |-> "failed", raised |-> TRUE]
       ELSE [file |-> JsonFile(reservedm, SerializableOrders(selected, 1)),
             io |-> "ok", raised |-> FALSE]

\* save_reservation_data under the write outcome w: the file afterwards,
\* whether the failure message was printed and whether the call raised
SaveReservationData(f, reservedm, selected, w) ==
  LET serializable_orders == SerializableOrders(selected, 1)
  IN IF w = "open_fails"
     THEN [file |-> f, io |-> "failed", raised |-> FALSE]
     ELSE IF w = "dump_fails" \/ JsonDumpRaises(serializable_orders)
          THEN [file |-> Corrupt, io |-> "failed", raised |-> FALSE]
          ELSE [file |-> JsonFile(reservedm, serializable_orders),
                io |-> "ok", raised |-> FALSE]

\* the body of the loop over loaded_orders for an entry that is an object
LoadedOrder(entry) ==
  [client |-> entry.client,
   date |-> IF Truthy(entry.date)
            THEN IF FromIsoRaises(entry.date) THEN None
                 ELSE FromIsoFormat(entry.date)
            ELSE entry.date]

RECURSIVE LoadLoop(_, _, _)
\* the loop over loaded_orders.items(): an entry that is not an object
\* raises TypeError at the test 'Дата отгрузки' in order_info
LoadLoop(entries, i, selected) ==
  IF i > Len(entries) THEN [raised |-> FALSE, selected |-> selected]
  ELSE IF ~entries[i].dict THEN [raised |-> TRUE, selected |-> selected]
       ELSE LoadLoop(entries, i + 1,
                     Put(selected, entries[i].num, LoadedOrder(entries[i])))

ReadOutcomes == {"ok", "read_fails"}

\* load_reservation_data under the read outcome r: the returned flag, the
\* message printed, whether the call raised and the two mappings afterwards
LoadReservationData(f, reservedm, selected, r) ==
  IF ~Exists(f)
  THEN [ok |-> FALSE, io |-> "none", raised |-> FALSE,
        reserved |-> reservedm, selected |-> selected]
  ELSE IF r = "read_fails" \/ f.state = "corrupt"
       THEN [ok |-> FALSE, io |-> "failed", raised |-> FALSE,
             reserved |-> reservedm, selected |-> selected]
       ELSE LET loop == LoadLoop(f.selected_orders, 1, selected)
            IN [ok |-> ~loop.raised,
                io |-> IF loop.raised THEN "failed" ELSE "ok",
                raised |-> FALSE,
                reserved |-> f.reserved_materials,
                selected |-> loop.selected]

RemoveOutcomes == {"ok", "remove_fails"}

\* variant of ClearFile: os.remove is never called
ClearFileKeeps(f, d) ==
  [file |-> f, io |-> IF Exists(f) THEN "ok" ELSE "none"]

\* clear_reservations under the remove outcome d: the file afterwards
ClearFile(f, d) ==
  IF ~Exists(f) THEN [file |-> f, io |-> "none"]
  ELSE IF d = "remove_fails" THEN [file |-> f, io |-> "failed"]
       ELSE [file |-> Absent, io |-> "ok"]

\* a hand-edited file found in the working directory when the program
\* starts: a date that is not ISO text, then an entry that is a number
\* instead of an object
EditedFile ==
  JsonFile([m \in {"glass"} |-> 5],
           << [num |-> "101", dict |-> TRUE, client |-> "Alfa",
               date |-> OtherStr(1)],
              [num |-> "102", dict |-> FALSE, client |-> "",
               date |-> None] >>)

InitFiles == {Absent, EditedFile}

\* the shipment_dates a caller passes: no entry at all, or a datetime for
\* the order "101"
ShipmentDates == {EmptyMap, "101" :> Datetime(1)}

\* ------------------------------------------------------------------- state
VARIABLES
  excel_file,          \* the workbook orders_df and materials_df come from
  stock_data,          \* material -> quantity on hand
  reserved_materials,  \* material -> reserved quantity
  selected_orders,     \* order number -> order_info
  file,                \* reservations.json
  ret,                 \* the last call: its name, argument, result, message
  log,                 \* the orders of the successful reserve calls made
                       \* since reserved_materials was last empty
  faults               \* I/O failures so far

vars == <<excel_file, stock_data, reserved_materials,
          selected_orders, file, ret, log, faults>>

Ret(op, ids, status, io, report) ==
  [op |-> op, ids |-> ids, status |-> status, io |-> io, report |-> report]

\* the log once it no longer describes reserved_materials
Stale == << {"?"}, {"?"}, {"?"} >>

Fault(outcome) == IF outcome = "ok" THEN faults ELSE faults + 1

\* __init__ and load_data
Init ==
  /\ excel_file \in ExcelFiles
  /\ stock_data = BuildStock(MaterialsDf(excel_file))
  /\ reserved_materials = EmptyMap
  /\ selected_orders = EmptyMap
  /\ file \in InitFiles
  /\ ret = Ret("init", {}, "none", "none", NoReport)
  /\ log = <<>>
  /\ faults = 0

\* a new ProductionPlanner is constructed (the program is started again)
NewInstance ==
  /\ stock_data' = BuildStock(MaterialsDf(excel_file))
  /\ reserved_materials' = EmptyMap
  /\ selected_orders' = EmptyMap
  /\ ret' = Ret("init", {}, "none", "none", NoReport)
  /\ log' = <<>>
  /\ UNCHANGED <<excel_file, file, faults>>

\* select_orders(order_numbers, shipment_dates)
Select ==
  \E ids \in OrderLists : \E dates \in ShipmentDates :
    /\ selected_orders' = SelectOrders(OrdersDf(excel_file), ids, dates)
    /\ ret' = Ret("select", ids, "none", "none", NoReport)
    /\ UNCHANGED <<excel_file, stock_data, reserved_materials,
                   file, log, faults>>

\* calculate_material_requirements()
Calculate ==
  LET requirements ==
        CalculateMaterialRequirements(excel_file, stock_data,
                                      reserved_materials, selected_orders)
  IN /\ ret' = Ret("calculate", {},
                   IF requirements.error THEN "error" ELSE "success",
                   "none", requirements)
     /\ reserved_materials' =
          ReservedRead(reserved_materials, requirements.material_requirements)
     /\ UNCHANGED <<excel_file, stock_data, selected_orders, file, log,
                    faults>>

\* reserve_materials(order_numbers, shipment_dates)
Reserve ==
  \E ids \in OrderLists : \E dates \in ShipmentDates :
  \E w \in WriteOutcomes :
    LET selected == SelectOrders(OrdersDf(excel_file), ids, dates)
        requirements ==
          CalculateMaterialRequirements(excel_file, stock_data,
                                        reserved_materials, selected)
        reservedm == ReserveAdd(reserved_materials,
                                requirements.material_requirements)
        saved == SaveReservationData(file, reservedm, selected, w)
    IN /\ selected_orders' = selected
       /\ IF requirements.error
          THEN /\ w = "ok"
               /\ ret' = Ret("reserve", ids, "error", "none", requirements)
               /\ UNCHANGED <<reserved_materials, file, log, faults>>
          ELSE /\ \A m \in DOMAIN reservedm : reservedm[m] <= MaxQty
               /\ w # "ok" => faults < MaxFaults
               /\ reserved_materials' = reservedm
               /\ file' = saved.file
               /\ faults' = Fault(w)
               /\ ret' = Ret("reserve", ids,
                             IF saved.raised THEN "raised" ELSE "success",
                             saved.io, requirements)
               /\ log' = IF Len(log) < 2
                         THEN Append(log, DOMAIN selected) ELSE Stale
       /\ UNCHANGED <<excel_file, stock_data>>

\* save_reservation_data()
Save ==
  \E w \in WriteOutcomes :
    LET saved == SaveReservationData(file, reserved_materials,
                                     selected_orders, w)
    IN /\ w # "ok" => faults < MaxFaults
       /\ file' = saved.file
       /\ faults' = Fault(w)
       /\ ret' = Ret("save", {}, IF saved.raised THEN "raised" ELSE "none",
                     saved.io, NoReport)
       /\ UNCHANGED <<excel_file, stock_data,
                      reserved_materials, selected_orders, log>>

\* load_reservation_data()
Load ==
  \E r \in ReadOutcomes :
    LET loaded == LoadReservationData(file, reserved_materials,
                                      selected_orders, r)
    IN /\ r # "ok" => Exists(file) /\ faults < MaxFaults
       /\ reserved_materials' = loaded.reserved
       /\ selected_orders' = loaded.selected
       /\ faults' = Fault(r)
       /\ ret' = Ret("load", {},
                     IF loaded.raised THEN "raised"
                     ELSE IF loaded.ok THEN "true" ELSE "false",
                     loaded.io, NoReport)
       /\ log' = IF loaded.reserved = reserved_materials THEN log
                 ELSE IF loaded.reserved = EmptyMap THEN <<>> ELSE Stale
       /\ UNCHANGED <<excel_file, stock_data, file>>

\* clear_reservations()
Clear ==
  \E d \in RemoveOutcomes :
    LET cleared == ClearFile(file, d)
    IN /\ d # "ok" => Exists(file) /\ faults < MaxFaults
       /\ reserved_materials' = EmptyMap
       /\ selected_orders' = EmptyMap
       /\ file' = cleared.file
       /\ faults' = Fault(d)
       /\ ret' = Ret("clear", {}, "success", cleared.io, NoReport)
       /\ log' = <<>>
       /\ UNCHANGED <<excel_file, stock_data>>

Next ==
  \/ NewInstance
  \/ Select
  \/ Calculate
  \/ Reserve
  \/ Save
  \/ Load
  \/ Clear

Spec == Init /\ [][Next]_vars

\* the program started in a directory that holds no reservations.json
InitNoFile == Init /\ file = Absent

SpecNoFile == InitNoFile /\ [][Next]_vars

\* the status and the message of load_reservation_data
LoadRet(loaded) ==
  Ret("load", {},
      IF loaded.raised THEN "raised"
      ELSE IF loaded.ok THEN "true" ELSE "false",
      loaded.io, NoReport)

\* main(): the program starts in a directory that holds the file f, builds
\* its ProductionPlanner and calls load_reservation_data() before any menu
\* choice is read
InitMain ==
  /\ excel_file \in ExcelFiles
  /\ stock_data = BuildStock(MaterialsDf(excel_file))
  /\ file \in InitFiles
  /\ \E r \in ReadOutcomes :
       LET loaded == LoadReservationData(file, EmptyMap, EmptyMap, r)
       IN /\ r # "ok" => Exists(file)
          /\ reserved_materials = loaded.reserved
          /\ selected_orders = loaded.selected
          /\ faults = IF r = "ok" THEN 0 ELSE 1
          /\ ret = LoadRet(loaded)
          /\ log = IF loaded.reserved = EmptyMap THEN <<>> ELSE Stale

\* the program is stopped and started again: main() builds a new planner
\* and calls load_reservation_data()
Restart ==
  \E r \in ReadOutcomes :
    LET loaded == LoadReservationData(file, EmptyMap, EmptyMap, r)
    IN /\ r # "ok" => Exists(file) /\ faults < MaxFaults
       /\ stock_data' = BuildStock(MaterialsDf(excel_file))
       /\ reserved_materials' = loaded.reserved
       /\ selected_orders' = loaded.selected
       /\ faults' = Fault(r)
       /\ ret' = LoadRet(loaded)
       /\ log' = IF loaded.reserved = EmptyMap THEN <<>> ELSE Stale
       /\ UNCHANGED <<excel_file, file>>

\* the operations the menu of main() reaches after start-up
NextMain ==
  \/ Restart
  \/ Select
  \/ Calculate
  \/ Reserve
  \/ Clear

SpecMain == InitMain /\ [][NextMain]_vars

\* ------------------------------------------------------------------ claims
\* 'material_requirements' of the report computed for the orders alone, on
\* an empty ledger
RequirementsAlone(orders) ==
  CalculateMaterialRequirements(
    excel_file, stock_data, EmptyMap,
    SelectOrders(OrdersDf(excel_file), orders, EmptyMap)).material_requirements

\* C1: from an empty ledger, reserve_materials(A) followed by
\* reserve_materials(B), A and B disjoint, leaves reserved_materials equal,
\* material by material, to the sum of the material_requirements of the
\* reports for A alone and for B alone.
AccumulationLaw ==
  (Len(log) = 2 /\ log[1] \cap log[2] = {}) =>
    LET a == RequirementsAlone(log[1])
        b == RequirementsAlone(log[2])
    IN /\ DOMAIN reserved_materials = (DOMAIN a) \cup (DOMAIN b)
       /\ \A m \in DOMAIN reserved_materials :
            reserved_materials[m] = Get(a, m) + Get(b, m)

\* two disjoint reservations that share a material were made
AccumulationReached ==
  /\ Len(log) = 2
  /\ log[1] # {} /\ log[2] # {} /\ log[1] \cap log[2] = {}
  /\ (DOMAIN RequirementsAlone(log[1]))
       \cap (DOMAIN RequirementsAlone(log[2])) # {}

\* C2 as stated: after clear_reservations both mappings are empty, the file
\* is absent and the call returned success.
ClearRemovesEverything ==
  ret.op = "clear" =>
    /\ IsEmpty(reserved_materials)
    /\ IsEmpty(selected_orders)
    /\ ~Exists(file)
    /\ ret.status = "success"

\* C2 amended: clear_reservations empties both mappings and returns success;
\* the file is absent afterwards unless removing it failed; a
\* load_reservation_data right after a clear whose removal did not fail
\* raises nothing, returns False and leaves both mappings empty.
ClearThenRestore ==
  [][/\ ret'.op = "clear" =>
          /\ IsEmpty(reserved_materials')
          /\ IsEmpty(selected_orders')
          /\ ret'.status = "success"
          /\ ret'.io # "failed" => ~Exists(file')
     /\ (ret.op = "clear" /\ ret.io # "failed" /\ ret'.op = "load") =>
          /\ ret'.status = "false"
          /\ IsEmpty(reserved_materials')
          /\ IsEmpty(selected_orders')]_vars

\* a clear has removed an existing file
ClearRemovedFile ==
  /\ ret.op = "clear" /\ ret.io = "ok"
  /\ ~Exists(file)
  /\ IsEmpty(reserved_materials) /\ IsEmpty(selected_orders)

\* C3: reserve_materials with an empty list, or with a list none of whose
\* ids is in the orders table, returns the error result and leaves
\* reserved_materials and the file as they were.
EmptyReserveChangesNothing ==
  [][(/\ ret'.op = "reserve"
      /\ \A n \in ret'.ids : ~Found(OrdersDf(excel_file), n)) =>
       /\ ret'.status = "error"
       /\ ret'.report = ErrorReport
       /\ reserved_materials' = reserved_materials
       /\ file' = file]_vars

\* an unknown order was reserved on a ledger and a file that hold something
EmptyReserveReached ==
  /\ ret.op = "reserve" /\ ret.status = "error" /\ ret.ids = {"999"}
  /\ ~IsEmpty(reserved_materials)
  /\ file.state = "json"

\* the two mappings a fresh instance has after save_reservation_data and
\* load_reservation_data, both without an I/O failure
SavedAndLoaded ==
  LoadReservationData(
    SaveReservationData(file, reserved_materials, selected_orders, "ok").file,
    EmptyMap, EmptyMap, "ok")

\* C4: save_reservation_data followed by load_reservation_data on a fresh
\* instance reproduces reserved_materials and selected_orders, shipment dates
\* included.
RoundTrip ==
  /\ SavedAndLoaded.ok
  /\ SavedAndLoaded.reserved = reserved_materials
  /\ SavedAndLoaded.selected = selected_orders

\* a load has restored what a save writes: a ledger, an order with a
\* datetime and an order without a date
RoundTripReached ==
  /\ ret.op = "load" /\ ret.status = "true"
  /\ file = SaveReservationData(file, reserved_materials, selected_orders,
                                "ok").file
  /\ ~IsEmpty(reserved_materials)
  /\ \E n, k \in DOMAIN selected_orders :
       /\ selected_orders[n].date = Datetime(1)
       /\ selected_orders[k].date = None

\* C5: a load_reservation_data that hits a read or parse failure raises
\* nothing, returns False and leaves both mappings as they were.
RestoreAllOrNothing ==
  [][(ret'.op = "load" /\ ret'.io = "failed") =>
       /\ ret'.status = "false"
       /\ reserved_materials' = reserved_materials
       /\ selected_orders' = selected_orders]_vars

\* C6: when reserve_materials selects an order and the write of the file
\* fails, the call returns success and reserved_materials holds the added
\* quantities.
FailedWriteKeepsReservation ==
  [][(/\ ret'.op = "reserve"
      /\ ~IsEmpty(selected_orders')
      /\ ret'.io = "failed") =>
       /\ ret'.status = "success"
       /\ \A m \in (DOMAIN reserved_materials)
                     \cup (DOMAIN ret'.report.material_requirements) :
            Get(reserved_materials', m) =
              Get(reserved_materials, m)
                + Get(ret'.report.material_requirements, m)]_vars

\* a reservation was made while the write failed
FailedWriteReached ==
  /\ ret.op = "reserve" /\ ret.io = "failed"
  /\ ~IsEmpty(selected_orders)
  /\ ~IsEmpty(reserved_materials)

\* C7: in every report a material is in purchase_requirements exactly when
\* its balance after is negative, and its value is minus that balance.
ShortfallConsistency ==
  (ret.op \in {"calculate", "reserve"} /\ ~ret.report.error) =>
    LET balance == ret.report.material_balance
        purchase == ret.report.purchase_requirements
    IN /\ DOMAIN purchase =
            {m \in DOMAIN balance : balance[m].balance_after < 0}
       /\ \A m \in DOMAIN purchase :
            purchase[m] = 0 - balance[m].balance_after

\* a report with a deficit and with a material whose balance is exactly 0
ShortfallReached ==
  /\ ret.op = "calculate"
  /\ ~IsEmpty(ret.report.purchase_requirements)
  /\ \E m \in DOMAIN ret.report.material_balance :
       ret.report.material_balance[m].balance_after = 0

\* C8: in every report available-now is max(0, stock - reserved), absent
\* values read as 0, balance-after is available-now minus required, and
\* available-now is never negative.
AvailableNeverNegative ==
  (ret.op = "calculate" /\ ~ret.report.error) =>
    \A m \in DOMAIN ret.report.material_balance :
      LET entry == ret.report.material_balance[m]
      IN /\ entry.current_stock = Get(stock_data, m)
         /\ entry.reserved = Get(reserved_materials, m)
         /\ entry.available_stock =
              Max(0, Get(stock_data, m) - Get(reserved_materials, m))
         /\ entry.available_stock >= 0
         /\ entry.balance_after = entry.available_stock - entry.required

\* a report on a material of which more is reserved than is in stock
OverReservedReached ==
  /\ ret.op = "calculate"
  /\ \E m \in DOMAIN ret.report.material_balance :
       /\ Get(reserved_materials, m) > Get(stock_data, m)
       /\ ret.report.material_balance[m].available_stock = 0

\* C9 as stated: over select, compute, reserve, save and restore the
\* reserved quantity of no material decreases.
MonotonicLedger ==
  [][ret'.op \in {"select", "calculate", "reserve", "save", "load"} =>
       \A m \in DOMAIN reserved_materials :
         Get(reserved_materials', m) >= reserved_materials[m]]_vars

\* C9 amended: over select, compute, reserve and save the reserved quantity
\* of no material decreases and no material leaves the ledger; a restore
\* leaves the ledger or replaces it by the mapping of the file.
MonotonicExceptRestore ==
  [][/\ ret'.op \in {"select", "calculate", "reserve", "save"} =>
          \A m \in DOMAIN reserved_materials :
            /\ m \in DOMAIN reserved_materials'
            /\ reserved_materials'[m] >= reserved_materials[m]
     /\ ret'.op = "load" =>
          \/ reserved_materials' = reserved_materials
          \/ reserved_materials' = file.reserved_materials]_vars

\* a material is reserved that no selected order requires
ReservedOutlivesOrder ==
  /\ ret.op \in {"select", "reserve"}
  /\ \E m \in DOMAIN reserved_materials :
       /\ reserved_materials[m] > 0
       /\ m \notin DOMAIN Resolved[excel_file][DOMAIN selected_orders]
                            .required_materials

\* C10: calculate_material_requirements leaves reserved_materials (its keys
\* included), selected_orders, the stock index and the file unchanged, and
\* a second call in the state it leaves returns the identical report.
CalculateIsPureRead ==
  [][ret'.op = "calculate" =>
       /\ reserved_materials' = reserved_materials
       /\ selected_orders' = selected_orders
       /\ stock_data' = stock_data
       /\ file' = file
       /\ ret'.report =
            CalculateMaterialRequirements(excel_file', stock_data',
                                          reserved_materials',
                                          selected_orders')]_vars

\* a report was computed on a material that has no key in the ledger
UnreservedReported ==
  /\ ret.op = "calculate" /\ ~ret.report.error
  /\ \E m \in DOMAIN ret.report.material_requirements :
       m \notin DOMAIN reserved_materials

\* the sum, over the columns cols, of the numeric cells of the row r of the
\* materials sheet
RowSum(t, cols, r) ==
  LET sum[c \in 0..Len(t.labels)] ==
        IF c = 0 THEN 0
        ELSE sum[c - 1]
             + (IF c \in cols THEN CellValue(t.rows[r].cells[c]) ELSE 0)
  IN sum[Len(t.labels)]

\* no other row of the sheet has the trimmed name of the row r
UniqueName(t, r) ==
  \A q \in 1..Len(t.rows) :
    q # r => Strip(t.rows[q].name) # Strip(t.rows[r].name)

\* C11: in every report, for every selected order and every row of the
\* materials sheet that names a material (blank rows may lie between them),
\* the quantity resolved for the material is the sum of the numeric cells of
\* that same row over the columns of the order, and the material is reported
\* for the order exactly when that sum is strictly positive.
ResolverRowJoin ==
  (ret.op = "calculate" /\ ~ret.report.error) =>
    LET t == MaterialsDf(excel_file)
    IN \A n \in DOMAIN selected_orders : \A r \in 1..Len(t.rows) :
         LET name == Strip(t.rows[r].name)
             required == RowSum(t, OrderColumns(t, n), r)
             reported == IF n \in DOMAIN ret.report.order_materials
                         THEN ret.report.order_materials[n] ELSE EmptyMap
         IN (t.rows[r].name # "" /\ UniqueName(t, r)) =>
              /\ name \in DOMAIN reported <=> required > 0
              /\ required > 0 => reported[name] = required

\* the reserved_materials stored in reservations.json, an absent file
\* counting as empty
FileReserved(f) == IF Exists(f) THEN f.reserved_materials ELSE EmptyMap

\* C12: once load_reservation_data has run at start-up, in every state
\* reached by select_orders, calculate_material_requirements,
\* reserve_materials and clear_reservations without an I/O failure the
\* reserved_materials stored in the file equal those in memory, and a
\* restart followed by a restore changes no reserved quantity.
LedgerFileAgreement ==
  /\ [](faults = 0 =>
          /\ file.state # "corrupt"
          /\ FileReserved(file) = reserved_materials)
  /\ [][(ret'.op = "load" /\ faults' = 0) =>
          reserved_materials' = reserved_materials]_vars

\* a restart has restored, without any I/O failure, the ledger that a
\* reservation wrote to the file
RestartRestoredLedger ==
  /\ ret.op = "load" /\ ret.status = "true"
  /\ faults = 0
  /\ file.state = "json"
  /\ ~IsEmpty(reserved_materials)
  /\ reserved_materials = file.reserved_materials

====
